---------------------------- MODULE Spec2Model ----------------------------
(***************************************************************************)
(* Model of app/services/conversation_service.py: ConversationService,     *)
(* the streaming orchestration of one inbound user message.                *)
(*                                                                         *)
(* One run of process_user_message is followed from the request to the end *)
(* of the async generator returned by _handle_streaming_response.  The     *)
(* collaborators (bot/config repository, Nexus message store, Frost usage  *)
(* sink, LLM provider stream, database session, the caller that consumes   *)
(* the generator) are the environment: each call to one of them is a step  *)
(* whose outcome (a value or a raised exception) is chosen                 *)
(* nondeterministically.                                                   *)
(***************************************************************************)
EXTENDS Integers, Sequences, FiniteSets, TLC

(* ------------------------------ bounds -------------------------------- *)
MaxChunks == 3      \* longest chunk sequence the provider emits
MaxPrior  == 2      \* messages already in the thread before the request
MaxPairChunks == 2  \* longest chunk sequence of each of two concurrent runs

(* ------------------------------ values -------------------------------- *)
Null == "<None>"                                   \* Python None

openai_models ==
    {"gpt-4o", "gpt-4o-mini", "gpt-4", "gpt-4-turbo", "gpt-3.5-turbo"}

anthropic_models ==
    {"claude-3-5-sonnet-20241022", "claude-3-5-sonnet-20240620",
     "claude-3-haiku-20240307", "claude-3-opus-20240229",
     "claude-3-sonnet-20240229"}

\* model names a stored BotConfig carries in the model: one of each family
\* and one of neither
ModelNames == {"gpt-4o", "claude-3-opus-20240229", "llama-3"}

\* chunk.content: absent, empty, or a text delta
ChunkContents == {Null, "", "a", "b"}

\* chunk.metadata: a bag that may or may not carry the "usage" counters
UsageCounters == [prompt_tokens |-> 5, completion_tokens |-> 2]
Metadata == {[model |-> "m"], [model |-> "m", usage |-> UsageCounters]}

\* StreamChunk = (content, metadata, done); the usage counters come with
\* chunks flagged done only (some of them lack the counters)
StreamChunk ==
    {c \in [content : ChunkContents, metadata : Metadata, done : BOOLEAN] :
        ~c.done => "usage" \notin DOMAIN c.metadata}

\* CreateMessageRequest: content, optional id, optional parent_id,
\* response_id; a request with neither optional field and one with both
CreateMessageRequest ==
    {[content |-> "hello", id |-> Null, parent_id |-> Null,
      response_id |-> "r-1"],
     [content |-> "hello", id |-> "u-1", parent_id |-> "m-1",
      response_id |-> "r-1"]}

\* the messages a thread holds before the request, oldest first
PriorIds == <<"m-1", "m-2", "m-3", "m-4">>
PriorMessage(i) ==
    [id |-> PriorIds[i],
     role |-> IF i % 2 = 1 THEN "user" ELSE "assistant",
     content |-> IF i % 2 = 1 THEN "q" ELSE "r",
     parent_id |-> Null, status |-> "completed", branch_id |-> "main"]

PriorThread(n) == [i \in 1..n |-> PriorMessage(i)]

(* ------------------------------ state --------------------------------- *)
VARIABLES
    stream,              \* the stream argument of process_user_message
    schema,              \* the CreateMessageRequest
    bot,                 \* bot_repo row for bot_id, or Null
    bot_config,          \* model_name of the is_current BotConfig, or Null
    thread,              \* Nexus message store: messages of thread_id
    events,              \* Frost usage sink: events received
    commits,             \* number of db.commit() calls that returned
    pc,                  \* position in process_user_message / the generator
    error,               \* status code or kind of the exception raised
    provider,            \* result of _get_api_key_and_provider
    user_message,        \* data returned by _post_user_message
    formatted_history,   \* result of _get_formatted_history
    llm,                 \* the LLMNode session: prior turns and input
    accumulated_content, \* list of content pieces
    chunk,               \* loop variable of the async for
    emitted,             \* chunks the provider stream has produced
    forwarded,           \* chunks yielded to the caller
    calls,               \* external calls made so far, in order
    peer                 \* the run of a second, concurrent request (its own
                         \* service instance, locals and generator), or
                         \* NoPeer when the request is served alone

vars == <<stream, schema, bot, bot_config, thread, events, commits, pc,
          error, provider, user_message, formatted_history, llm,
          accumulated_content, chunk, emitted, forwarded, calls, peer>>

\* what no step of this run writes: its arguments, the bot rows, and the
\* state of the other request's run
inputs == <<stream, schema, bot, bot_config, peer>>
stores == <<thread, events, commits>>
locals == <<provider, user_message, formatted_history>>
genlocals == <<llm, accumulated_content, chunk, emitted, forwarded>>

NoChunk == [content |-> Null, metadata |-> [model |-> "m"], done |-> FALSE]
NoMessage == [id |-> Null, role |-> Null, content |-> Null,
              parent_id |-> Null, status |-> Null, branch_id |-> Null]
NoLLM   == [conversation |-> <<>>, input |-> Null, opened |-> FALSE]

\* the second request: its body, and the state of its run
PeerRequest ==
    [content |-> "hi", id |-> "u-2", parent_id |-> Null,
     response_id |-> "r-2"]

PeerRun(at) ==
    [pc |-> at, error |-> Null, user_message |-> NoMessage,
     formatted_history |-> <<>>, llm |-> NoLLM,
     accumulated_content |-> <<>>, chunk |-> NoChunk, emitted |-> <<>>,
     forwarded |-> <<>>, commits |-> 0]

NoPeer == PeerRun("absent")

Init ==
    /\ stream \in BOOLEAN
    /\ schema \in CreateMessageRequest
    /\ bot \in {Null, "bot"}
    /\ bot_config \in {Null} \cup ModelNames
    /\ bot = Null => bot_config = Null
    /\ thread \in {PriorThread(n) : n \in 0..MaxPrior}
    /\ events = <<>>
    /\ commits = 0
    /\ pc = "start"
    /\ error = Null
    /\ provider = Null
    /\ user_message = NoMessage
    /\ formatted_history = <<>>
    /\ llm = NoLLM
    /\ accumulated_content = <<>>
    /\ chunk = NoChunk
    /\ emitted = <<>>
    /\ forwarded = <<>>
    /\ calls = <<>>
    /\ peer = NoPeer

(* ------------------------- pure helpers ------------------------------- *)
\* "".join(parts)
RECURSIVE join(_)
join(parts) ==
    IF parts = <<>> THEN "" ELSE Head(parts) \o join(Tail(parts))

\* Python truthiness of chunk.content (None and "" are falsy)
truthy(content) == content # Null /\ content # ""

\* uuid7(): an identifier no message of the thread carries
uuid7 == "u-gen"

\* raise: the coroutine or generator ends with an exception
raise(code) == pc' = "raised" /\ error' = code

(* ---------------------- process_user_message -------------------------- *)
\* variant: the stream flag is not tested
process_user_message_noflag ==
    /\ pc = "start"
    /\ pc' = "get_bot_config" /\ error' = error
    /\ UNCHANGED <<inputs, stores, locals, genlocals, calls>>

\* lines 41-45: the stream flag is tested before anything else
process_user_message ==
    /\ pc = "start"
    /\ IF ~stream
         THEN raise("405")
         ELSE pc' = "get_bot_config" /\ error' = error
    /\ UNCHANGED <<inputs, stores, locals, genlocals, calls>>

\* variant: the result of the config lookup is not tested
_get_bot_config_unchecked ==
    /\ pc = "get_bot_config"
    /\ IF bot = Null
         THEN /\ raise("404")
              /\ calls' = Append(calls, "bot_repo.get")
         ELSE /\ calls' = calls \o <<"bot_repo.get", "bot_config_repo.get">>
              /\ pc' = "get_provider" /\ error' = error
    /\ UNCHANGED <<inputs, stores, locals, genlocals>>

\* lines 168-183: bot lookup, then the is_current config lookup
_get_bot_config ==
    /\ pc = "get_bot_config"
    /\ IF bot = Null
         THEN /\ raise("404")
              /\ calls' = Append(calls, "bot_repo.get")
         ELSE /\ calls' = calls \o <<"bot_repo.get", "bot_config_repo.get">>
              /\ IF bot_config = Null
                   THEN raise("404")
                   ELSE pc' = "get_provider" /\ error' = error
    /\ UNCHANGED <<inputs, stores, locals, genlocals>>

\* variant: a model of neither family is served by the second family
_get_api_key_and_provider_default ==
    /\ pc = "get_provider"
    /\ provider' = IF bot_config \in openai_models THEN "openai"
                                                   ELSE "anthropic"
    /\ pc' = "post_user" /\ error' = error
    /\ UNCHANGED <<inputs, stores, user_message, formatted_history,
                   genlocals, calls>>

\* lines 127-149: the static model table
_get_api_key_and_provider ==
    /\ pc = "get_provider"
    /\ IF bot_config \in openai_models
         THEN provider' = "openai" /\ pc' = "post_user" /\ error' = error
         ELSE IF bot_config \in anthropic_models
                THEN provider' = "anthropic" /\ pc' = "post_user"
                     /\ error' = error
                ELSE provider' = provider /\ raise("400")
    /\ UNCHANGED <<inputs, stores, user_message, formatted_history,
                   genlocals, calls>>

\* lines 185-193
_create_payload ==
    [content   |-> schema.content,
     role      |-> "user",
     id        |-> IF schema.id # Null THEN schema.id ELSE uuid7,
     parent_id |-> IF schema.parent_id # Null THEN schema.parent_id ELSE Null,
     status    |-> "completed"]

\* the message store's POST: the message is appended to the thread and
\* returned with the branch the store assigned
StoredMessage(payload) ==
    [id |-> payload.id, role |-> payload.role,
     content |-> payload.content, parent_id |-> payload.parent_id,
     status |-> payload.status, branch_id |-> "main"]

\* variant: the POST that raises has stored the message
_post_user_message_stored ==
    /\ pc = "post_user"
    /\ calls' = Append(calls, "nexus.post:user")
    /\ thread' = Append(thread, StoredMessage(_create_payload))
    /\ \/ /\ user_message' = StoredMessage(_create_payload)
          /\ pc' = "get_history" /\ error' = error
       \/ /\ raise("nexus")
          /\ UNCHANGED user_message
    /\ UNCHANGED <<inputs, events, commits, provider, formatted_history,
                   genlocals>>

\* variant: the generator is built right after the write, without the
\* history fetch
_post_user_message_no_history ==
    /\ pc = "post_user"
    /\ calls' = Append(calls, "nexus.post:user")
    /\ \/ /\ thread' = Append(thread, StoredMessage(_create_payload))
          /\ user_message' = StoredMessage(_create_payload)
          /\ pc' = "gen_created" /\ error' = error
       \/ /\ raise("nexus")
          /\ UNCHANGED <<thread, user_message>>
    /\ UNCHANGED <<inputs, events, commits, provider, formatted_history,
                   genlocals>>

\* lines 50-52 and 195-203: the POST either stores the message and returns
\* it, or raises and stores nothing
_post_user_message ==
    /\ pc = "post_user"
    /\ calls' = Append(calls, "nexus.post:user")
    /\ \/ /\ thread' = Append(thread, StoredMessage(_create_payload))
          /\ user_message' = StoredMessage(_create_payload)
          /\ pc' = "get_history" /\ error' = error
       \/ /\ raise("nexus")
          /\ UNCHANGED <<thread, user_message>>
    /\ UNCHANGED <<inputs, events, commits, provider, formatted_history,
                   genlocals>>

\* the message store's GET: the messages of the branch up to and including
\* last_message_id, oldest first
NexusGet(branch_id, last_message_id) ==
    LET last == CHOOSE i \in 1..Len(thread) : thread[i].id = last_message_id
    IN  SelectSeq(SubSeq(thread, 1, last),
                  LAMBDA m : m.branch_id = branch_id)

\* lines 163-166: the projection to role/content pairs, in store order
format_history(messages) ==
    [i \in 1..Len(messages) |->
        [role |-> messages[i].role, content |-> messages[i].content]]

\* variant: when the history GET raises, the user message is taken out of
\* the thread again
_get_formatted_history_compensate ==
    /\ pc = "get_history"
    /\ calls' = Append(calls, "nexus.get")
    /\ \/ /\ formatted_history' =
                format_history(NexusGet(user_message.branch_id,
                                        user_message.id))
          /\ pc' = "gen_created" /\ error' = error
          /\ UNCHANGED thread
       \/ /\ raise("nexus")
          /\ thread' = SelectSeq(thread, LAMBDA m : m.id # user_message.id)
          /\ UNCHANGED formatted_history
    /\ UNCHANGED <<inputs, events, commits, provider, user_message,
                   genlocals>>

\* lines 53-68 and 151-166: the history GET either returns the messages or
\* raises; on success the coroutine returns the generator object of
\* _handle_streaming_response, whose body has not started
_get_formatted_history ==
    /\ pc = "get_history"
    /\ calls' = Append(calls, "nexus.get")
    /\ \/ /\ formatted_history' =
                format_history(NexusGet(user_message.branch_id,
                                        user_message.id))
          /\ pc' = "gen_created" /\ error' = error
       \/ /\ raise("nexus")
          /\ UNCHANGED formatted_history
    /\ UNCHANGED <<inputs, stores, provider, user_message, genlocals>>

(* -------------------- _handle_streaming_response ---------------------- *)
\* variant: the assistant message is linked to the parent of the request
assistant_payload_request_parent(content) ==
    [id |-> schema.response_id, content |-> content,
     status |-> "completed", parent_id |-> schema.parent_id,
     role |-> "assistant"]

\* lines 205-218: the payload of the assistant message
assistant_payload(content) ==
    [id |-> schema.response_id, content |-> content,
     status |-> "completed", parent_id |-> user_message.id,
     role |-> "assistant"]

\* variant: formatted_history replayed whole
prior_turns_all(history) == history

\* lines 93-96: formatted_history[:-1]
prior_turns(history) ==
    IF history = <<>> THEN <<>> ELSE SubSeq(history, 1, Len(history) - 1)

\* lines 88-98: the caller's first __anext__ starts the body: the session is
\* built, the prior turns are replayed and the provider stream is requested
\* with schema.content as input
start_generator ==
    /\ pc = "gen_created"
    /\ accumulated_content' = <<>>
    /\ llm' = [conversation |-> prior_turns(formatted_history),
               input |-> schema.content, opened |-> TRUE]
    /\ calls' = Append(calls, "llm.process_stream")
    /\ pc' = "await_chunk"
    /\ UNCHANGED <<inputs, stores, locals, error, chunk, emitted, forwarded>>

\* variant: on a provider error the content accumulated so far is stored
\* before the error is raised again
next_chunk_store_partial ==
    /\ pc = "await_chunk"
    /\ \/ \E c \in StreamChunk :
            /\ Len(emitted) < MaxChunks
            /\ emitted' = Append(emitted, c)
            /\ chunk' = c
            /\ pc' = "got_chunk" /\ error' = error
            /\ UNCHANGED thread
       \/ /\ pc' = "exhausted" /\ error' = error
          /\ UNCHANGED <<chunk, emitted, thread>>
       \/ /\ raise("provider")
          /\ thread' = Append(thread,
                StoredMessage(assistant_payload(join(accumulated_content))))
          /\ UNCHANGED <<chunk, emitted>>
    /\ UNCHANGED <<inputs, events, commits, locals, llm, accumulated_content,
                   forwarded, calls>>

\* line 98: llm.process_stream delivers the next chunk, ends, or raises
next_chunk ==
    /\ pc = "await_chunk"
    /\ \/ \E c \in StreamChunk :
            /\ Len(emitted) < MaxChunks
            /\ emitted' = Append(emitted, c)
            /\ chunk' = c
            /\ pc' = "got_chunk" /\ error' = error
       \/ /\ pc' = "exhausted" /\ error' = error
          /\ UNCHANGED <<chunk, emitted>>
       \/ /\ raise("provider")
          /\ UNCHANGED <<chunk, emitted>>
    /\ UNCHANGED <<inputs, stores, locals, llm, accumulated_content,
                   forwarded, calls>>

\* variant: the terminal chunk's content is not accumulated
accumulate_not_done(acc, c) ==
    IF truthy(c.content) /\ ~c.done THEN Append(acc, c.content) ELSE acc

\* lines 99-100
accumulate(acc, c) ==
    IF truthy(c.content) THEN Append(acc, c.content) ELSE acc

\* variant: chunks without content are not handed to the caller
yield_nonempty(out, c) ==
    IF truthy(c.content) THEN Append(out, c) ELSE out

\* line 101: yield chunk
yield(out, c) == Append(out, c)

\* variant: the chunk is put aside for the caller and the next one is
\* requested without waiting for the caller
yield_chunk_prefetch ==
    /\ pc = "got_chunk"
    /\ accumulated_content' = accumulate(accumulated_content, chunk)
    /\ \/ /\ forwarded' = yield(forwarded, chunk)
          /\ pc' = "yielded"
       \/ /\ ~chunk.done
          /\ UNCHANGED forwarded
          /\ pc' = "await_chunk"
    /\ UNCHANGED <<inputs, stores, locals, error, llm, chunk, emitted, calls>>

\* variant: the assistant message of a terminal chunk is written before the
\* chunk is handed to the caller
yield_chunk_write_first ==
    /\ pc = "got_chunk"
    /\ accumulated_content' = accumulate(accumulated_content, chunk)
    /\ forwarded' = yield(forwarded, chunk)
    /\ pc' = "yielded"
    /\ IF chunk.done
         THEN /\ calls' = Append(calls, "nexus.post:assistant")
              /\ thread' = Append(thread, StoredMessage(assistant_payload(
                               join(accumulate(accumulated_content, chunk)))))
         ELSE UNCHANGED <<calls, thread>>
    /\ UNCHANGED <<inputs, events, commits, locals, error, llm, chunk,
                   emitted>>

\* lines 99-101: accumulate, then hand the chunk to the caller and suspend
yield_chunk ==
    /\ pc = "got_chunk"
    /\ accumulated_content' = accumulate(accumulated_content, chunk)
    /\ forwarded' = yield(forwarded, chunk)
    /\ pc' = "yielded"
    /\ UNCHANGED <<inputs, stores, locals, error, llm, chunk, emitted, calls>>

\* line 103: the caller's next __anext__ resumes the body after the yield
resume ==
    /\ pc = "yielded"
    /\ pc' = IF chunk.done THEN "post_assistant" ELSE "await_chunk"
    /\ UNCHANGED <<inputs, stores, locals, error, genlocals, calls>>

\* variant: a failure of the POST is swallowed and the body goes on
_post_assistant_message_swallow ==
    /\ pc = "post_assistant"
    /\ calls' = Append(calls, "nexus.post:assistant")
    /\ pc' = "post_usage" /\ error' = error
    /\ \/ thread' = Append(thread,
                StoredMessage(assistant_payload(join(accumulated_content))))
       \/ UNCHANGED thread
    /\ UNCHANGED <<inputs, events, commits, locals, genlocals>>

\* lines 104-107: join the pieces and POST the assistant message
_post_assistant_message ==
    /\ pc = "post_assistant"
    /\ calls' = Append(calls, "nexus.post:assistant")
    /\ \/ /\ thread' = Append(thread,
                StoredMessage(assistant_payload(join(accumulated_content))))
          /\ pc' = "post_usage" /\ error' = error
       \/ /\ raise("nexus")
          /\ UNCHANGED thread
    /\ UNCHANGED <<inputs, events, commits, locals, genlocals>>

\* lines 108-120: the usage event built from the terminal chunk's metadata
payload_usage(usage) ==
    [model_name |-> bot_config,
     input_tokens |-> usage.prompt_tokens,
     output_tokens |-> usage.completion_tokens]

\* variant: a failure of the usage POST is swallowed and the commit follows
post_usage_best_effort ==
    /\ pc = "post_usage"
    /\ IF "usage" \notin DOMAIN chunk.metadata
         THEN /\ raise("AttributeError")
              /\ UNCHANGED <<events, calls>>
         ELSE /\ calls' = Append(calls, "frost.post")
              /\ pc' = "commit" /\ error' = error
              /\ \/ events' = Append(events,
                                     payload_usage(chunk.metadata.usage))
                 \/ UNCHANGED events
    /\ UNCHANGED <<inputs, thread, commits, locals, genlocals>>

\* lines 108-124: metadata.get("usage") is None when the key is absent and
\* usage.get then raises; otherwise the event is POSTed to Frost, which
\* either accepts it or raises
post_usage ==
    /\ pc = "post_usage"
    /\ IF "usage" \notin DOMAIN chunk.metadata
         THEN /\ raise("AttributeError")
              /\ UNCHANGED <<events, calls>>
         ELSE /\ calls' = Append(calls, "frost.post")
              /\ \/ /\ events' = Append(events,
                                        payload_usage(chunk.metadata.usage))
                    /\ pc' = "commit" /\ error' = error
                 \/ /\ raise("frost")
                    /\ UNCHANGED events
    /\ UNCHANGED <<inputs, thread, commits, locals, genlocals>>

\* line 125: db.commit() returns or raises; the async for then asks for the
\* next chunk
commit ==
    /\ pc = "commit"
    /\ calls' = Append(calls, "db.commit")
    /\ \/ /\ commits' = commits + 1
          /\ pc' = "await_chunk" /\ error' = error
       \/ /\ raise("db")
          /\ UNCHANGED commits
    /\ UNCHANGED <<inputs, thread, events, locals, genlocals>>

\* the caller stops consuming: aclose() on the generator not yet started or
\* suspended at the yield (GeneratorExit), or cancellation of the task while
\* the body waits in an await (CancelledError); no handler or finally block
\* of the body runs
SuspensionPoints ==
    {"gen_created", "yielded", "await_chunk", "post_assistant", "post_usage",
     "commit"}

\* variant: closing the generator stores the content accumulated so far
disconnect_store_partial ==
    /\ pc \in SuspensionPoints
    /\ pc' = "closed"
    /\ thread' = Append(thread,
                StoredMessage(assistant_payload(join(accumulated_content))))
    /\ UNCHANGED <<inputs, events, commits, locals, error, genlocals, calls>>

disconnect ==
    /\ pc \in SuspensionPoints
    /\ pc' = "closed"
    /\ UNCHANGED <<inputs, stores, locals, error, genlocals, calls>>

Next ==
    \/ process_user_message
    \/ _get_bot_config
    \/ _get_api_key_and_provider
    \/ _post_user_message
    \/ _get_formatted_history
    \/ start_generator
    \/ next_chunk
    \/ yield_chunk
    \/ resume
    \/ _post_assistant_message
    \/ post_usage
    \/ commit
    \/ disconnect

Spec == Init /\ [][Next]_vars

(* --------------------- two concurrent requests ------------------------ *)
\* Each request gets its own ConversationService (lines 25-31) and its own
\* call of process_user_message and of the generator, whose state is in
\* parameters and local variables; the two runs meet only in the
\* collaborators (message store, usage sink).  The first run is the one
\* above; the second run has its state in peer and takes the same steps,
\* from the user-message write on.

\* the variables of the first run and its database session
run1 == <<stream, schema, bot, bot_config, commits, pc, error, provider,
          user_message, formatted_history, llm, accumulated_content, chunk,
          emitted, forwarded, calls>>

\* the chunks the two providers emit in the two-request specification: each
\* stream has contents of its own
PairChunks ==
    {[content |-> "a", metadata |-> [model |-> "m"], done |-> FALSE],
     [content |-> Null, metadata |-> [model |-> "m"], done |-> FALSE],
     [content |-> "b", metadata |-> [model |-> "m", usage |-> UsageCounters],
      done |-> TRUE]}

PeerChunks ==
    {[content |-> "x", metadata |-> [model |-> "m"], done |-> FALSE],
     [content |-> "", metadata |-> [model |-> "m"], done |-> FALSE],
     [content |-> "y", metadata |-> [model |-> "m", usage |-> UsageCounters],
      done |-> TRUE]}

peer_raise(code) == peer' = [peer EXCEPT !.pc = "raised", !.error = code]

\* lines 185-193, for the second request
peer_create_payload ==
    [content   |-> PeerRequest.content,
     role      |-> "user",
     id        |-> IF PeerRequest.id # Null THEN PeerRequest.id ELSE uuid7,
     parent_id |-> IF PeerRequest.parent_id # Null
                     THEN PeerRequest.parent_id ELSE Null,
     status    |-> "completed"]

\* lines 205-218, for the second request
peer_assistant_payload(content) ==
    [id |-> PeerRequest.response_id, content |-> content,
     status |-> "completed", parent_id |-> peer.user_message.id,
     role |-> "assistant"]

\* lines 50-52 and 195-203
peer_post_user_message ==
    /\ peer.pc = "post_user"
    /\ \/ /\ thread' = Append(thread, StoredMessage(peer_create_payload))
          /\ peer' = [peer EXCEPT
                        !.user_message = StoredMessage(peer_create_payload),
                        !.pc = "get_history"]
       \/ /\ peer_raise("nexus")
          /\ UNCHANGED thread
    /\ UNCHANGED <<run1, events>>

\* lines 53-68 and 151-166
peer_get_formatted_history ==
    /\ peer.pc = "get_history"
    /\ \/ peer' = [peer EXCEPT
                     !.formatted_history =
                         format_history(NexusGet(peer.user_message.branch_id,
                                                 peer.user_message.id)),
                     !.pc = "gen_created"]
       \/ peer_raise("nexus")
    /\ UNCHANGED <<run1, thread, events>>

\* lines 88-98
peer_start_generator ==
    /\ peer.pc = "gen_created"
    /\ peer' = [peer EXCEPT
                  !.accumulated_content = <<>>,
                  !.llm = [conversation |->
                               prior_turns(peer.formatted_history),
                           input |-> PeerRequest.content, opened |-> TRUE],
                  !.pc = "await_chunk"]
    /\ UNCHANGED <<run1, thread, events>>

\* line 98
peer_next_chunk ==
    /\ peer.pc = "await_chunk"
    /\ \/ \E c \in PeerChunks :
            /\ Len(peer.emitted) < MaxPairChunks
            /\ peer' = [peer EXCEPT !.emitted = Append(peer.emitted, c),
                                    !.chunk = c, !.pc = "got_chunk"]
       \/ peer' = [peer EXCEPT !.pc = "exhausted"]
       \/ peer_raise("provider")
    /\ UNCHANGED <<run1, thread, events>>

\* variant: the list of content pieces is one list shared by the runs
peer_yield_chunk_shared ==
    /\ peer.pc = "got_chunk"
    /\ accumulated_content' = accumulate(accumulated_content, peer.chunk)
    /\ peer' = [peer EXCEPT
                  !.accumulated_content =
                      accumulate(accumulated_content, peer.chunk),
                  !.forwarded = yield(peer.forwarded, peer.chunk),
                  !.pc = "yielded"]
    /\ UNCHANGED <<stream, schema, bot, bot_config, commits, pc, error,
                   provider, user_message, formatted_history, llm, chunk,
                   emitted, forwarded, calls, thread, events>>

\* lines 99-101
peer_yield_chunk ==
    /\ peer.pc = "got_chunk"
    /\ peer' = [peer EXCEPT
                  !.accumulated_content =
                      accumulate(peer.accumulated_content, peer.chunk),
                  !.forwarded = yield(peer.forwarded, peer.chunk),
                  !.pc = "yielded"]
    /\ UNCHANGED <<run1, thread, events>>

\* line 103
peer_resume ==
    /\ peer.pc = "yielded"
    /\ peer' = [peer EXCEPT !.pc = IF peer.chunk.done THEN "post_assistant"
                                                      ELSE "await_chunk"]
    /\ UNCHANGED <<run1, thread, events>>

\* lines 104-107
peer_post_assistant_message ==
    /\ peer.pc = "post_assistant"
    /\ \/ /\ thread' = Append(thread, StoredMessage(peer_assistant_payload(
                                  join(peer.accumulated_content))))
          /\ peer' = [peer EXCEPT !.pc = "post_usage"]
       \/ /\ peer_raise("nexus")
          /\ UNCHANGED thread
    /\ UNCHANGED <<run1, events>>

\* lines 108-124
peer_post_usage ==
    /\ peer.pc = "post_usage"
    /\ IF "usage" \notin DOMAIN peer.chunk.metadata
         THEN peer_raise("AttributeError") /\ UNCHANGED events
         ELSE \/ /\ events' = Append(events,
                                 payload_usage(peer.chunk.metadata.usage))
                 /\ peer' = [peer EXCEPT !.pc = "commit"]
              \/ /\ peer_raise("frost")
                 /\ UNCHANGED events
    /\ UNCHANGED <<run1, thread>>

\* line 125
peer_commit ==
    /\ peer.pc = "commit"
    /\ \/ peer' = [peer EXCEPT !.commits = peer.commits + 1,
                               !.pc = "await_chunk"]
       \/ peer_raise("db")
    /\ UNCHANGED <<run1, thread, events>>

\* the caller of the second request stops consuming
peer_disconnect ==
    /\ peer.pc \in SuspensionPoints
    /\ peer' = [peer EXCEPT !.pc = "closed"]
    /\ UNCHANGED <<run1, thread, events>>

\* line 98, with the first provider limited to its own chunks
pair_next_chunk ==
    /\ next_chunk
    /\ emitted' # emitted =>
          Len(emitted) < MaxPairChunks /\ chunk' \in PairChunks

\* both requests are for an existing bot with a supported model and reach
\* the same thread
PairInit ==
    /\ stream = TRUE
    /\ schema \in {r \in CreateMessageRequest : r.id = Null}
    /\ bot = "bot"
    /\ bot_config = "gpt-4o"
    /\ thread = PriorThread(1)
    /\ events = <<>>
    /\ commits = 0
    /\ pc = "start"
    /\ error = Null
    /\ provider = Null
    /\ user_message = NoMessage
    /\ formatted_history = <<>>
    /\ llm = NoLLM
    /\ accumulated_content = <<>>
    /\ chunk = NoChunk
    /\ emitted = <<>>
    /\ forwarded = <<>>
    /\ calls = <<>>
    /\ peer = PeerRun("post_user")

PairNext ==
    \/ process_user_message
    \/ _get_bot_config
    \/ _get_api_key_and_provider
    \/ _post_user_message
    \/ _get_formatted_history
    \/ start_generator
    \/ pair_next_chunk
    \/ yield_chunk
    \/ resume
    \/ _post_assistant_message
    \/ post_usage
    \/ commit
    \/ disconnect
    \/ peer_post_user_message
    \/ peer_get_formatted_history
    \/ peer_start_generator
    \/ peer_next_chunk
    \/ peer_yield_chunk
    \/ peer_resume
    \/ peer_post_assistant_message
    \/ peer_post_usage
    \/ peer_commit
    \/ peer_disconnect

PairSpec == PairInit /\ [][PairNext]_vars

TypeOK ==
    /\ pc \in {"start", "get_bot_config", "get_provider", "post_user",
               "get_history", "raised", "closed", "exhausted", "got_chunk"}
              \cup SuspensionPoints
    /\ Len(emitted) <= MaxChunks

(* --------------------------- observations ----------------------------- *)
PriorIdSet == {PriorIds[i] : i \in DOMAIN PriorIds}

\* the messages this run has added to the thread, in store order
Persisted == SelectSeq(thread, LAMBDA m : m.id \notin PriorIdSet)

AssistantMessages == SelectSeq(Persisted, LAMBDA m : m.role = "assistant")
UserMessages      == SelectSeq(Persisted, LAMBDA m : m.role = "user")

Count(log, name) == Cardinality({i \in DOMAIN log : log[i] = name})

LastCall == IF calls = <<>> THEN Null ELSE calls[Len(calls)]

IsPrefix(s, t) == Len(s) <= Len(t) /\ SubSeq(t, 1, Len(s)) = s

\* a chunk flagged done is among the first n chunks the provider produced
TerminalWithin(n) == \E i \in 1..n : emitted[i].done
TerminalReached   == TerminalWithin(Len(emitted))

\* the run has stopped with an exception before the provider stream was
\* requested
FailedBeforeStreaming == pc = "raised" /\ ~llm.opened

(* ------------------------------- C1 ----------------------------------- *)
\* C1 (as stated): every run that fails before the upstream stream is
\* opened has persisted no message in the message store.
C1_NoMessageOnEarlyFailure ==
    FailedBeforeStreaming => Persisted = <<>>

\* C1 (amended): a run that fails before the upstream stream is opened has
\* persisted no assistant message; it has persisted no message at all
\* unless the failing step is the history fetch, and then exactly the user
\* message of the request is persisted.
C1_EarlyFailureState ==
    FailedBeforeStreaming =>
        IF LastCall = "nexus.get"
          THEN /\ Len(Persisted) = 1
               /\ Persisted[1] = user_message
               /\ Persisted[1].role = "user"
               /\ Persisted[1].content = schema.content
          ELSE Persisted = <<>>

\* the history fetch has failed after the user message was written
C1_Witness ==
    /\ FailedBeforeStreaming
    /\ LastCall = "nexus.get"
    /\ Len(Persisted) = 1

(* ------------------------------- C2 ----------------------------------- *)
\* C2 (as stated): when the POST of the usage event raises after the
\* terminal chunk, the unit of work of the assistant message written for
\* that chunk is still committed.
C2_CommitDespiteUsageFailure ==
    (pc = "raised" /\ error = "frost") =>
        commits >= Len(AssistantMessages)

(* ------------------------------- C3 ----------------------------------- *)
\* C3: once the caller has disconnected before any chunk flagged done was
\* produced, no assistant message is in the store, no usage event was
\* emitted, no commit was made, and none of these calls was attempted.
C3_CancelledStreamDiscarded ==
    (pc = "closed" /\ ~TerminalReached) =>
        /\ AssistantMessages = <<>>
        /\ events = <<>>
        /\ commits = 0
        /\ Count(calls, "nexus.post:assistant") = 0
        /\ Count(calls, "frost.post") = 0
        /\ Count(calls, "db.commit") = 0

\* the caller disconnected after content was forwarded and accumulated
C3_Witness ==
    /\ pc = "closed"
    /\ ~TerminalReached
    /\ Len(forwarded) >= 2
    /\ accumulated_content # <<>>

(* ------------------------------- C4 ----------------------------------- *)
\* the generator ran to its end without raising, having received a chunk
\* flagged done
CompletedSuccessfully == pc = "exhausted" /\ TerminalReached

\* C4 (as stated): in every run at most one assistant message is written
\* and at most one usage event is emitted, and exactly one of each when the
\* stream completes successfully, whatever chunk sequence the provider
\* emits.
C4_ExactlyOnce ==
    /\ Len(AssistantMessages) <= 1
    /\ Len(events) <= 1
    /\ CompletedSuccessfully =>
          Len(AssistantMessages) = 1 /\ Len(events) = 1

(* ------------------------------- C5 ----------------------------------- *)
\* C5: once the provider stream is requested, the history the store
\* returned (n >= 1 entries) is exactly the replayed prior turns followed
\* by one user turn carrying the input: entries 1..n-1 are replayed, the
\* input is the content of entry n, nothing is used twice or left out.
C5_HistorySplit ==
    llm.opened =>
        /\ Len(formatted_history) >= 1
        /\ Len(llm.conversation) = Len(formatted_history) - 1
        /\ llm.conversation \o <<[role |-> "user", content |-> llm.input]>>
              = formatted_history

\* the thread held two messages before the request
C5_Witness ==
    /\ llm.opened
    /\ Len(formatted_history) = 3
    /\ Len(llm.conversation) = 2

(* ------------------------------- C6 ----------------------------------- *)
\* C6: the chunks forwarded to the caller are at every point a prefix of
\* the chunks the provider emitted (same chunks, same order, none dropped),
\* at most the chunk just received is still to be forwarded, and when the
\* generator has ended, was closed or has raised, every emitted chunk was
\* forwarded.
C6_ForwardingOrder ==
    /\ IsPrefix(forwarded, emitted)
    /\ Len(emitted) - Len(forwarded) = IF pc = "got_chunk" THEN 1 ELSE 0

\* a stream consumed to its end that held a chunk with empty content, a
\* chunk with absent content and a terminal chunk
C6_Witness ==
    /\ pc = "exhausted"
    /\ forwarded = emitted
    /\ \E i, j \in 1..Len(forwarded) :
          /\ forwarded[i].content = ""
          /\ forwarded[j].content = Null
    /\ forwarded[Len(forwarded)].done

(* ------------------------------- C7 ----------------------------------- *)
\* a call of the assistant-message POST has raised
AssistantWriteFailed ==
    Count(calls, "nexus.post:assistant") > Len(AssistantMessages)

\* C7: when the assistant-message write has failed, the generator has ended
\* with that failure, every chunk had been forwarded before, and no usage
\* event and no commit exist for that write: the events and commits are
\* those of the writes that succeeded before it.
C7_WriteFailurePropagates ==
    AssistantWriteFailed =>
        /\ pc = "raised" /\ error = "nexus"
        /\ LastCall = "nexus.post:assistant"
        /\ forwarded = emitted /\ TerminalReached
        /\ Len(events) = Len(AssistantMessages)
        /\ commits = Len(AssistantMessages)

\* the write for the first terminal chunk failed after chunks were forwarded
C7_Witness ==
    /\ AssistantWriteFailed
    /\ Len(forwarded) >= 2
    /\ AssistantMessages = <<>>
    /\ commits = 0 /\ events = <<>>

(* ------------------------------- C8 ----------------------------------- *)
\* C8: when the provider stream has raised before any chunk flagged done,
\* the run has ended as failed with no assistant message written (the
\* accumulated content is not stored), no usage event and no commit.
C8_ProviderErrorDiscards ==
    (error = "provider" /\ ~TerminalReached) =>
        /\ pc = "raised"
        /\ AssistantMessages = <<>>
        /\ events = <<>>
        /\ commits = 0
        /\ Count(calls, "nexus.post:assistant") = 0

\* the provider raised after content had been forwarded and accumulated
C8_Witness ==
    /\ pc = "raised" /\ error = "provider"
    /\ ~TerminalReached
    /\ Len(forwarded) >= 1
    /\ accumulated_content # <<>>

(* ------------------------------- C9 ----------------------------------- *)
\* the content of the chunks s, in order, absent content counting as empty
RECURSIVE ConcatContents(_)
ConcatContents(s) ==
    IF s = <<>> THEN ""
    ELSE (IF Head(s).content = Null THEN "" ELSE Head(s).content)
            \o ConcatContents(Tail(s))

\* position in emitted of the k-th chunk flagged done
RECURSIVE TerminalIndex(_, _)
TerminalIndex(k, from) ==
    IF emitted[from].done
      THEN (IF k = 1 THEN from ELSE TerminalIndex(k - 1, from + 1))
      ELSE TerminalIndex(k, from + 1)

\* C9: the k-th assistant message persisted has as content the in-order
\* concatenation of the content of every chunk received up to and including
\* the k-th chunk flagged done.
C9_PersistedContent ==
    \A k \in 1..Len(AssistantMessages) :
        /\ Cardinality({i \in 1..Len(emitted) : emitted[i].done}) >= k
        /\ AssistantMessages[k].content =
              ConcatContents(SubSeq(emitted, 1, TerminalIndex(k, 1)))

\* "a", "b" and a terminal chunk persisted as "ab"
C9_Witness ==
    /\ Len(AssistantMessages) = 1
    /\ AssistantMessages[1].content = "ab"
    /\ Len(emitted) = 3
    /\ emitted[3].done /\ ~truthy(emitted[3].content)

(* ------------------------------- C10 ---------------------------------- *)
\* C10: a request with stream disabled ends with the 405 error as its only
\* step: no lookup, no message-store call, no provider call, no usage
\* event, no commit, and no generator is ever created.
C10_NonStreamingRejected ==
    ~stream =>
        /\ pc \in {"start", "raised"}
        /\ pc = "raised" => error = "405"
        /\ calls = <<>>
        /\ Persisted = <<>>
        /\ events = <<>> /\ commits = 0
        /\ ~llm.opened /\ emitted = <<>> /\ forwarded = <<>>

\* the request with stream disabled has been rejected
C10_Witness ==
    ~stream /\ pc = "raised" /\ error = "405" /\ bot # Null

(* ------------------------------- C11 ---------------------------------- *)
LookupCalls == {"bot_repo.get", "bot_config_repo.get"}

\* the current config names a model of neither provider family
UnsupportedModel ==
    bot_config # Null /\ bot_config \notin openai_models \cup anthropic_models

\* C11: with a model of neither family the run never gets past provider
\* resolution: it ends with the 400 error, the resolution itself makes no
\* external call, and no message-store write, history fetch, provider call,
\* usage event or commit happens.
C11_UnsupportedModelRejected ==
    (stream /\ UnsupportedModel) =>
        /\ pc \in {"start", "get_bot_config", "get_provider", "raised"}
        /\ pc = "raised" => error = "400"
        /\ provider = Null
        /\ \A i \in DOMAIN calls : calls[i] \in LookupCalls
        /\ Len(calls) <= 2
        /\ Persisted = <<>> /\ user_message = NoMessage
        /\ events = <<>> /\ commits = 0
        /\ ~llm.opened

\* resolution has failed for the unknown model
C11_Witness ==
    /\ UnsupportedModel
    /\ pc = "raised" /\ error = "400"
    /\ calls = <<"bot_repo.get", "bot_config_repo.get">>

(* ------------------------------- C12 ---------------------------------- *)
\* C12: when the bot is absent, or present without a current config, the
\* run ends with the 404 error in the lookup step: the config lookup is not
\* made for an absent bot, the provider is never resolved and no
\* message-store call, provider call, usage event or commit happens.
C12_MissingBotOrConfig ==
    (stream /\ (bot = Null \/ bot_config = Null)) =>
        /\ pc \in {"start", "get_bot_config", "raised"}
        /\ pc = "raised" =>
              /\ error = "404"
              /\ calls = IF bot = Null
                           THEN <<"bot_repo.get">>
                           ELSE <<"bot_repo.get", "bot_config_repo.get">>
        /\ provider = Null
        /\ Persisted = <<>> /\ user_message = NoMessage
        /\ events = <<>> /\ commits = 0
        /\ ~llm.opened

\* the bot exists and has no current config
C12_Witness ==
    /\ bot # Null /\ bot_config = Null
    /\ pc = "raised" /\ error = "404"

(* ------------------------------- C13 ---------------------------------- *)
\* the assistant message of a terminal chunk without usage counters has
\* been written and the step after the write has been taken
WrittenWithoutUsage ==
    /\ chunk.done /\ "usage" \notin DOMAIN chunk.metadata
    /\ LastCall = "nexus.post:assistant" /\ ~AssistantWriteFailed
    /\ pc # "post_usage"

\* C13 (as stated): when the terminal chunk carries no usage counters the
\* run does not end as failed after the assistant-message write: unless the
\* caller went away, it goes on to the commit of the unit of work.
C13_MissingUsageIsSoft ==
    WrittenWithoutUsage => pc \in {"commit", "closed"}

(* ------------------------------- C14 ---------------------------------- *)
\* C14: every commit was made after the assistant-message write and the
\* usage emission of the same terminal chunk had both succeeded, in that
\* order: a db.commit call directly follows a usage POST that directly
\* follows an assistant-message POST, and there are never more commits than
\* usage events nor more usage events than assistant messages.
C14_CommitAfterBothWrites ==
    /\ commits <= Len(events)
    /\ Len(events) <= Len(AssistantMessages)
    /\ Len(events) = Count(calls, "frost.post")
          - (IF pc = "raised" /\ error = "frost" THEN 1 ELSE 0)
    /\ \A i \in DOMAIN calls :
          calls[i] = "db.commit" =>
              /\ i >= 3
              /\ calls[i - 1] = "frost.post"
              /\ calls[i - 2] = "nexus.post:assistant"

\* a stream consumed to its end with one commit
C14_Witness ==
    /\ pc = "exhausted"
    /\ commits = 1
    /\ Len(events) = 1 /\ Len(AssistantMessages) = 1

(* ------------------------------- C15 ---------------------------------- *)
\* the orchestrator state of the specification, read off the run: how far
\* it got (0 Idle, 1 ConfigResolved, 2 UserMessagePersisted,
\* 3 HistoryLoaded, 4 Streaming, 5 Completed) and whether it has failed
Stage ==
    IF commits > 0 THEN 5
    ELSE IF llm.opened THEN 4
    ELSE IF Count(calls, "nexus.get") > 0 /\ formatted_history # <<>> THEN 3
    ELSE IF user_message # NoMessage THEN 2
    ELSE IF Count(calls, "bot_config_repo.get") > 0 /\ bot_config # Null
      THEN 1
    ELSE 0

Failed == pc = "raised"

\* the calls up to the opening of the provider stream, in the order of the
\* state machine
SetupCalls ==
    <<"bot_repo.get", "bot_config_repo.get", "nexus.post:user", "nexus.get",
      "llm.process_stream">>

CompletionCalls == {"nexus.post:assistant", "frost.post", "db.commit"}

\* every call is made at its place: the setup calls once each and in
\* order, the completion calls only after them
CallOrder ==
    \A i \in DOMAIN calls :
        IF i <= Len(SetupCalls) THEN calls[i] = SetupCalls[i]
                                ELSE calls[i] \in CompletionCalls

\* the provider is resolved before the user message is written, and the
\* history that was loaded is the thread up to and including the user
\* message this run wrote
DataOrder ==
    /\ Stage >= 2 =>
          /\ provider # Null
          /\ \E i \in DOMAIN thread : thread[i] = user_message
    /\ Stage >= 3 =>
          /\ Len(formatted_history) <= Len(thread)
          /\ thread[Len(formatted_history)] = user_message
          /\ \A i \in DOMAIN formatted_history :
                /\ formatted_history[i].role = thread[i].role
                /\ formatted_history[i].content = thread[i].content

\* C15: every step of a run either leaves the orchestrator state where it
\* is, moves it to the next state of Idle, ConfigResolved,
\* UserMessagePersisted, HistoryLoaded, Streaming, Completed, or ends the
\* run as failed; a failed run takes no further step; the external calls
\* are made in the order of these states, and the history fetch is bounded
\* by the user message the write returned.
C15_StateOrder ==
    [][/\ ~Failed
       /\ Failed' \/ Stage' = Stage \/ Stage' = Stage + 1
       /\ Failed' => Stage' = Stage
       /\ CallOrder'
       /\ DataOrder']_vars

\* a run that went through every state
C15_Witness ==
    /\ Stage = 5
    /\ pc = "exhausted"
    /\ Len(formatted_history) = 3

(* ------------------------------- C16 ---------------------------------- *)
\* C16: at most one chunk received from the provider is not yet forwarded,
\* and a chunk is taken from the provider only when every chunk received
\* before has been handed to the caller and the caller has asked for more
\* (the body is waiting in the async for, not suspended at the yield).
C16_Backpressure ==
    [][/\ Len(emitted') - Len(forwarded') <= 1
       /\ emitted' # emitted =>
             /\ pc = "await_chunk"
             /\ forwarded = emitted
             /\ Len(emitted') = Len(emitted) + 1
       /\ pc = "yielded" => UNCHANGED <<emitted, forwarded>>]_vars

\* the second chunk has been received and is not yet forwarded
C16_Witness ==
    /\ pc = "got_chunk"
    /\ Len(emitted) = 2
    /\ Len(forwarded) = 1

(* ------------------------------- C17 ---------------------------------- *)
\* C17: every assistant message the run has written has as parent the
\* identifier of the one user message the run has written, as returned by
\* the store, as identifier the response identifier of the request, the
\* role assistant and the status completed.
C17_AssistantMessageLinks ==
    \A k \in 1..Len(AssistantMessages) :
        /\ Len(UserMessages) = 1
        /\ UserMessages[1] = user_message
        /\ AssistantMessages[k].parent_id = UserMessages[1].id
        /\ AssistantMessages[k].parent_id # Null
        /\ AssistantMessages[k].id = schema.response_id
        /\ AssistantMessages[k].role = "assistant"
        /\ AssistantMessages[k].status = "completed"

\* written for a request without an identifier of its own, whose user
\* message got a generated one
C17_Witness ==
    /\ Len(AssistantMessages) = 1
    /\ schema.id = Null
    /\ AssistantMessages[1].parent_id = uuid7

(* ------------------------------- C19 ---------------------------------- *)
DoneCount(s) == Cardinality({i \in DOMAIN s : s[i].done})

\* C19: when a terminal chunk has just been handed to the caller its
\* assistant message is not yet written; the write is attempted only after
\* the caller has resumed the generator past that chunk; a caller that
\* goes away while the generator is suspended at the yield changes nothing
\* in the message store, the usage sink or the database, and a closed
\* generator takes no further step.
C19_CompletionNeedsResume ==
    [][/\ (pc' = "yielded" /\ chunk'.done) =>
             Count(calls', "nexus.post:assistant") = DoneCount(forwarded') - 1
       /\ Count(calls', "nexus.post:assistant")
             > Count(calls, "nexus.post:assistant") =>
             /\ pc = "post_assistant"
             /\ forwarded = emitted
             /\ forwarded[Len(forwarded)].done
       /\ pc = "yielded" =>
             /\ pc' \in {"closed", "post_assistant", "await_chunk"}
             /\ UNCHANGED <<thread, events, commits, calls>>
       /\ pc # "closed"]_vars

\* the caller went away having received the only terminal chunk: nothing
\* was written, emitted or committed
C19_Witness ==
    /\ pc = "closed"
    /\ forwarded = emitted /\ Len(forwarded) >= 2
    /\ forwarded[Len(forwarded)].done /\ DoneCount(forwarded) = 1
    /\ Count(calls, "nexus.post:assistant") = 0
    /\ AssistantMessages = <<>> /\ events = <<>> /\ commits = 0

(* ------------------------------- C20 ---------------------------------- *)
\* the run has written its user message and has ended, without a commit,
\* by a failed message-store call, a provider error or the caller going
\* away, or its generator was never started
EndedIncomplete ==
    /\ user_message # NoMessage
    /\ commits = 0
    /\ \/ pc = "closed"
       \/ pc = "gen_created"
       \/ pc = "raised" /\ error \in {"nexus", "provider"}

\* the assistant messages linked to the user message of the run
Replies ==
    SelectSeq(AssistantMessages, LAMBDA m : m.parent_id = user_message.id)

\* C20 (as stated): in every run that has written its user message and
\* ends without completing, the user message is still in the thread and no
\* assistant message has it as parent.
C20_NoReplyWhenIncomplete ==
    EndedIncomplete =>
        /\ UserMessages = <<user_message>>
        /\ Replies = <<>>

\* C20 (amended): once written, the user message stays in the thread, once,
\* in every later state; a run that ends without a commit leaves no
\* assistant message linked to it, except when the caller went away after
\* the assistant-message write had succeeded (during the usage emission or
\* the commit): then that one assistant message stays in the thread too.
C20_UserMessageStays ==
    user_message # NoMessage =>
        /\ UserMessages = <<user_message>>
        /\ EndedIncomplete =>
              IF /\ pc = "closed"
                 /\ LastCall \in {"nexus.post:assistant", "frost.post"}
                 /\ ~AssistantWriteFailed
                THEN Len(Replies) = 1 /\ AssistantMessages = Replies
                ELSE AssistantMessages = <<>>

\* the history fetch failed: the user message is kept and has no reply
C20_Witness ==
    /\ EndedIncomplete
    /\ pc = "raised" /\ LastCall = "nexus.get"
    /\ UserMessages = <<user_message>>
    /\ Replies = <<>>

(* ------------------------------- C18 ---------------------------------- *)
\* position in the chunk sequence s of its k-th chunk flagged done
RECURSIVE DoneIndex(_, _, _)
DoneIndex(s, k, from) ==
    IF s[from].done
      THEN (IF k = 1 THEN from ELSE DoneIndex(s, k - 1, from + 1))
      ELSE DoneIndex(s, k, from + 1)

\* the assistant messages stored under the response identifier rid are,
\* in order, the concatenations of the chunk sequence s up to each of its
\* chunks flagged done, and all have the parent uid
OwnReplies(rid, uid, s) ==
    LET replies == SelectSeq(thread, LAMBDA m : m.id = rid)
    IN  \A k \in 1..Len(replies) :
            /\ DoneCount(s) >= k
            /\ replies[k].content =
                  ConcatContents(SubSeq(s, 1, DoneIndex(s, k, 1)))
            /\ replies[k].parent_id = uid
            /\ replies[k].role = "assistant"

\* C18: with two requests served at the same time, in every interleaving,
\* each run forwards to its caller a prefix of the chunks of its own
\* provider stream and nothing of the other stream, and the assistant
\* messages it stores carry the concatenated content of its own stream and
\* its own user message as parent.
C18_RunsAreIndependent ==
    /\ IsPrefix(forwarded, emitted)
    /\ IsPrefix(peer.forwarded, peer.emitted)
    /\ \A i \in DOMAIN forwarded : forwarded[i] \in PairChunks
    /\ \A i \in DOMAIN peer.forwarded : peer.forwarded[i] \in PeerChunks
    /\ (user_message # NoMessage /\ peer.user_message # NoMessage) =>
          user_message.id # peer.user_message.id
    /\ OwnReplies(schema.response_id, user_message.id, emitted)
    /\ OwnReplies(PeerRequest.response_id, peer.user_message.id,
                  peer.emitted)

\* both runs have received two chunks and stored their assistant message
C18_Witness ==
    /\ Len(SelectSeq(thread, LAMBDA m : m.id = schema.response_id)) = 1
    /\ Len(SelectSeq(thread, LAMBDA m : m.id = PeerRequest.response_id)) = 1
    /\ Len(emitted) = 2 /\ Len(peer.emitted) = 2
    /\ \E m \in {thread[i] : i \in DOMAIN thread} : m.content = "ab"
    /\ \E m \in {thread[i] : i \in DOMAIN thread} : m.content = "xy"

=============================================================================
